---- MODULE Spec2Model ----
(***************************************************************************)
(* Model of the file store service of iAgent                              *)
(* (apps/backend/src/app/services/file.service.ts): upload with           *)
(* deduplication, rename, replace, delete and the advanced listing in     *)
(* page and cursor mode, over a GridFS bucket (collection fs.files); and  *)
(* of the useDebounce hook (apps/frontend/src/hooks/useDebouncer.ts) and   *)
(* the FileList component (apps/frontend/src/components/FileList.tsx) of   *)
(* the frontend.                                                           *)
(*                                                                         *)
(* The specifications share the variables:                                 *)
(*   Spec      one service call at a time, each call one step;             *)
(*   SpecStore the same calls, without the record of the last call;        *)
(*   SpecConc  two uploadFile calls in flight, split at their awaits;      *)
(*   SpecList  listFilesAdvanced walked page by page over a fixed dataset; *)
(*   SpecChurn a cursor walk while other clients upload and delete;        *)
(*   SpecRead  getFileInfo and getFileStream on a fixed dataset;           *)
(*   SpecValidate  validateFile under every configured limit;              *)
(*   SpecHook  one useDebounce hook, its input, its timers and time;       *)
(*   SpecUi    one FileList, its list requests and their late answers.     *)
(***************************************************************************)
EXTENDS Integers, Sequences, FiniteSets, TLC

----------------------------------------------------------------------------
(* Bounds of the model *)

\* ObjectIds the engine hands out in one behaviour of Spec and SpecConc
MaxFiles == 2
\* Largest value of the clock (new Date())
MaxClock == 2
\* Largest number of records of a dataset listed in SpecList
MaxListFiles == 3
\* Largest page size (limit) of a listing request
MaxLimit == 2

----------------------------------------------------------------------------
(* Configuration: environment.fileUpload *)

\* environment.fileUpload.maxFileSize, in bytes
maxFileSize == 2

\* environment.fileUpload.acceptedTypes
acceptedTypes == {"text/plain", "image/png"}

----------------------------------------------------------------------------
(* Values *)

\* JavaScript undefined / a key that is absent from a metadata document
Undef == <<"undef">>

Str(s) == <<"str", s>>
Num(n) == <<"num", n>>
Date(t) == <<"date", t>>

\* createHash('sha256').update(buffer).digest('hex'): the digest of different
\* contents differs (no collisions among the contents of the model)
Sha256(buffer) == <<"sha256", buffer>>

\* The string of an ObjectId, _id.toString(), and a string that is no ObjectId
IdString(oid) == [hex |-> TRUE, n |-> oid]
BadIdString == [hex |-> FALSE, n |-> 0]
NoIdString == [hex |-> FALSE, n |-> -1]

\* new ObjectId(s) throws on a string that is not 24 hex digits
ObjectIdThrows(s) == ~s.hex
ObjectId(s) == s.n

\* Keys of a metadata document
MetaKeys ==
  {"originalName", "mimetype", "size", "hash", "uploadedAt", "chatId",
   "userId", "updatedAt", "originalReplacedId", "description"}

\* metadata === undefined, and {}
NoMeta == [k \in MetaKeys |-> Undef]

\* { ...a, ...b }: the keys of b win
Spread(a, b) == [k \in MetaKeys |-> IF b[k] # Undef THEN b[k] ELSE a[k]]

\* A metadata object with the given keys set
Meta(kv) == [k \in MetaKeys |-> IF k \in DOMAIN kv THEN kv[k] ELSE Undef]

----------------------------------------------------------------------------
(* Inputs *)

ContentA == <<1>>
ContentB == <<2, 3>>

NameA == <<"a", ".", "t">>
NameB == <<"A", "b">>

\* file === undefined
NoFile ==
  [present |-> FALSE, buffer |-> <<>>, originalname |-> <<>>,
   mimetype |-> "", size |-> 0]

MkFile(b, f, m, s) ==
  [present |-> TRUE, buffer |-> b, originalname |-> f, mimetype |-> m, size |-> s]

\* The uploaded files of the model: two contents under two names, a file whose
\* declared size exceeds the limit, and a file of a type that is not accepted
FileInputs ==
  { MkFile(ContentA, NameA, "text/plain", 1),
    MkFile(ContentA, NameB, "text/plain", 1),
    MkFile(ContentB, NameA, "image/png", 2),
    MkFile(ContentA, NameA, "text/plain", maxFileSize + 1),
    MkFile(ContentA, NameB, "application/zip", 1),
    NoFile }

\* A timestamp a caller supplies, different from every value of the clock
CallerDate == Date(0)

\* Caller metadata: of uploadFile, the patch of renameFile, the overrides of
\* replaceFile
MetaInputs ==
  { NoMeta,
    Meta([hash |-> Sha256(<<9>>), updatedAt |-> CallerDate, chatId |-> Str("c1")]) }

\* payload.filename of renameFile: absent, or a new name
RenameNames == {<<>>, NameB}

IdInputs == {IdString(i) : i \in 1..MaxFiles} \cup {BadIdString}

----------------------------------------------------------------------------
(* State *)

VARIABLES
  files,    \* fs.files and fs.chunks: ObjectId -> stored document with its bytes
  nextId,   \* the next ObjectId the driver generates
  now,      \* the clock
  last,     \* the last service call of Spec: operation, arguments, outcome
  calls,    \* SpecConc: the uploadFile calls in flight
  walk,     \* SpecList: the listing requests made so far and their answers
  hook,     \* SpecHook: the state of one mounted useDebounce hook
  ui        \* SpecUi: the state of one mounted FileList and its requests

vars == <<files, nextId, now, last, calls, walk, hook, ui>>

\* A document of fs.files together with the bytes of its chunks. length is
\* the number of bytes the write stream stored.
Doc(filename, buffer, uploadDate, metadata) ==
  [filename |-> filename, content |-> buffer, length |-> Len(buffer),
   uploadDate |-> uploadDate, metadata |-> metadata]

SetMin(S) == CHOOSE x \in S : \A y \in S : x <= y

----------------------------------------------------------------------------
(* Outcome of a call *)

\* kind: "ok", or the exception the call ends with. id: the id of the result.
\* lookup / opened: whether the dedup query ran and whether a write stream was
\* opened during the call. dedup: the upload was answered from a stored record.
Ret(kind, why, id, size, lookup, opened, dedup) ==
  [kind |-> kind, why |-> why, id |-> id, size |-> size,
   lookup |-> lookup, opened |-> opened, dedup |-> dedup]

Fail(kind, why, lookup, opened) ==
  Ret(kind, why, NoIdString, 0, lookup, opened, FALSE)

----------------------------------------------------------------------------
(* uploadFile *)

\* The checks of validateFile with the type check first
validateFileWithTypeFirst(file, maxSize, types) ==
  IF types # {} /\ file.mimetype \notin types THEN "type"
  ELSE IF file.size > maxSize THEN "size"
  ELSE "ok"

\* The checks of validateFile under the limits { maxFileSize, acceptedTypes }
\* of the environment: "ok", or the check that throws BadRequestException
validateFileWith(file, maxSize, types) ==
  IF file.size > maxSize THEN "size"
  ELSE IF types # {} /\ file.mimetype \notin types THEN "type"
  ELSE "ok"

\* validateFile without the size check
validateFileNoSize(file) ==
  IF acceptedTypes # {} /\ file.mimetype \notin acceptedTypes THEN "type" ELSE "ok"

\* validateFile: "ok", or the check that throws BadRequestException
validateFile(file) == validateFileWith(file, maxFileSize, acceptedTypes)

\* The dedup query on a key no document has: it finds nothing
findDuplicateWrongKey(fs, file) ==
  LET hash == Sha256(file.buffer)
      hits == {i \in DOMAIN fs :
                 fs[i].metadata["description"] = hash /\ fs[i].filename = file.originalname}
  IN IF hits = {} THEN {} ELSE {SetMin(hits)}

\* The dedup query on the hash alone, whatever the filename
findDuplicateByHash(fs, file) ==
  LET hash == Sha256(file.buffer)
      hits == {i \in DOMAIN fs : fs[i].metadata["hash"] = hash}
  IN IF hits = {} THEN {} ELSE {SetMin(hits)}

\* find({'metadata.hash': hash, filename: originalname}).limit(1).toArray():
\* the matching documents, at most one, the first in _id order
findDuplicate(fs, file) ==
  LET hash == Sha256(file.buffer)
      hits == {i \in DOMAIN fs :
                 fs[i].metadata["hash"] = hash /\ fs[i].filename = file.originalname}
  IN IF hits = {} THEN {} ELSE {SetMin(hits)}

\* dup.metadata?.mimetype || 'application/octet-stream'
mimetypeOf(doc) ==
  IF doc.metadata["mimetype"] = Undef THEN Str("application/octet-stream")
  ELSE doc.metadata["mimetype"]

\* The metadata option of openUploadStream
uploadMetadata(file, metadata, clk) ==
  Spread(
    Meta([originalName |-> Str(file.originalname),
          mimetype |-> Str(file.mimetype),
          size |-> Num(file.size),
          hash |-> Sha256(file.buffer),
          uploadedAt |-> Date(clk),
          chatId |-> metadata["chatId"],
          userId |-> metadata["userId"]]),
    metadata)

\* A bucket with a unique index on (metadata.hash, filename): the write of a
\* second such document stores nothing
storeUploadUnique(fs, oid, file, md, clk) ==
  IF \E i \in DOMAIN fs :
       fs[i].metadata["hash"] = md["hash"] /\ fs[i].filename = file.originalname
  THEN fs
  ELSE [i \in DOMAIN fs \cup {oid} |->
          IF i = oid THEN Doc(file.originalname, file.buffer, Date(clk), md) ELSE fs[i]]

\* The files document and chunks the write stream stores when it finishes
storeUpload(fs, oid, file, md, clk) ==
  [i \in DOMAIN fs \cup {oid} |->
     IF i = oid THEN Doc(file.originalname, file.buffer, Date(clk), md) ELSE fs[i]]

\* uploadFile(file, metadata) run to its end on store fs. streamError: the
\* write stream emits 'error' and nothing is stored.
uploadFile(fs, nid, clk, file, metadata, streamError) ==
  IF ~file.present THEN
    [files |-> fs, nextId |-> nid, ret |-> Fail("BadRequest", "nofile", FALSE, FALSE)]
  ELSE IF validateFile(file) # "ok" THEN
    [files |-> fs, nextId |-> nid,
     ret |-> Fail("BadRequest", validateFile(file), FALSE, FALSE)]
  ELSE
    LET existing == findDuplicate(fs, file) IN
    IF existing # {} THEN
      LET dup == SetMin(existing) IN
      [files |-> fs, nextId |-> nid,
       ret |-> Ret("ok", "", IdString(dup), fs[dup].length, TRUE, FALSE, TRUE)]
    ELSE IF streamError THEN
      [files |-> fs, nextId |-> nid + 1,
       ret |-> Fail("BadRequest", "upload", TRUE, TRUE)]
    ELSE
      [files |-> storeUpload(fs, nid, file, uploadMetadata(file, metadata, clk), clk),
       nextId |-> nid + 1,
       ret |-> Ret("ok", "", IdString(nid), file.size, TRUE, TRUE, FALSE)]

----------------------------------------------------------------------------
(* renameFile, replaceFile, deleteFile *)

\* GridFSBucket.delete(objectId): removes the document and its chunks
bucketDelete(fs, oid) == [i \in DOMAIN fs \ {oid} |-> fs[i]]

\* update.metadata built from the patch alone
renameMetadataPatchOnly(exists, patch, clk) ==
  Spread(patch, Meta([updatedAt |-> Date(clk)]))

\* update.metadata of renameFile
renameMetadata(exists, patch, clk) ==
  Spread(Spread(exists.metadata, patch), Meta([updatedAt |-> Date(clk)]))

renameFile(fs, clk, fileId, filename, patch) ==
  IF ObjectIdThrows(fileId) THEN
    [files |-> fs, ret |-> Fail("BSONError", "", FALSE, FALSE)]
  ELSE IF ObjectId(fileId) \notin DOMAIN fs THEN
    [files |-> fs, ret |-> Fail("NotFound", "", FALSE, FALSE)]
  ELSE
    LET oid == ObjectId(fileId)
        exists == fs[oid]
        updated == [exists EXCEPT
                      !.filename = IF filename # <<>> THEN filename ELSE @,
                      !.metadata = renameMetadata(exists, patch, clk)]
    IN [files |-> [fs EXCEPT ![oid] = updated],
        ret |-> Ret("ok", "", IdString(oid), updated.length, FALSE, FALSE, FALSE)]

\* The metadata with the caller's overrides spread last
replaceMetadataOverridesLast(existing, additionalMetadata, fileId, clk) ==
  Spread(Spread(existing.metadata,
                Meta([originalReplacedId |-> <<"id", fileId.n>>, updatedAt |-> Date(clk)])),
         additionalMetadata)

\* The metadata replaceFile passes to uploadFile
replaceMetadata(existing, additionalMetadata, fileId, clk) ==
  Spread(Spread(existing.metadata, additionalMetadata),
         Meta([originalReplacedId |-> <<"id", fileId.n>>, updatedAt |-> Date(clk)]))

\* replaceFile that looks the id up and deletes the old record first and
\* leaves the checks of the new file to uploadFile
replaceFileLookupFirst(fs, nid, clk, fileId, newFile, additionalMetadata, deleteFails, streamError) ==
  IF ObjectIdThrows(fileId) THEN
    [files |-> fs, nextId |-> nid, ret |-> Fail("BSONError", "", FALSE, FALSE)]
  ELSE IF ObjectId(fileId) \notin DOMAIN fs THEN
    [files |-> fs, nextId |-> nid, ret |-> Fail("NotFound", "", FALSE, FALSE)]
  ELSE
    LET oid == ObjectId(fileId)
        existing == fs[oid]
        afterDelete == IF deleteFails THEN fs ELSE bucketDelete(fs, oid)
    IN uploadFile(afterDelete, nid, clk, newFile,
                  replaceMetadata(existing, additionalMetadata, fileId, clk),
                  streamError)

\* deleteFails: gridFSBucket.delete throws and the old record stays
replaceFile(fs, nid, clk, fileId, newFile, additionalMetadata, deleteFails, streamError) ==
  IF ~newFile.present THEN
    [files |-> fs, nextId |-> nid, ret |-> Fail("BadRequest", "nofile", FALSE, FALSE)]
  ELSE IF validateFile(newFile) # "ok" THEN
    [files |-> fs, nextId |-> nid,
     ret |-> Fail("BadRequest", validateFile(newFile), FALSE, FALSE)]
  ELSE IF ObjectIdThrows(fileId) THEN
    [files |-> fs, nextId |-> nid, ret |-> Fail("BSONError", "", FALSE, FALSE)]
  ELSE IF ObjectId(fileId) \notin DOMAIN fs THEN
    [files |-> fs, nextId |-> nid, ret |-> Fail("NotFound", "", FALSE, FALSE)]
  ELSE
    LET oid == ObjectId(fileId)
        existing == fs[oid]
        afterDelete == IF deleteFails THEN fs ELSE bucketDelete(fs, oid)
    IN uploadFile(afterDelete, nid, clk, newFile,
                  replaceMetadata(existing, additionalMetadata, fileId, clk),
                  streamError)

\* deleteFile that reports success when no document has the id
deleteFileSilent(fs, fileId, deleteFails) ==
  IF ObjectIdThrows(fileId) \/ deleteFails THEN
    [files |-> fs, ret |-> Fail("NotFound", "", FALSE, FALSE)]
  ELSE
    [files |-> bucketDelete(fs, ObjectId(fileId)),
     ret |-> Ret("ok", "", fileId, 0, FALSE, FALSE, FALSE)]

\* deleteFails: the delete throws for another reason than a missing document
deleteFile(fs, fileId, deleteFails) ==
  IF ObjectIdThrows(fileId) \/ ObjectId(fileId) \notin DOMAIN fs \/ deleteFails THEN
    [files |-> fs, ret |-> Fail("NotFound", "", FALSE, FALSE)]
  ELSE
    [files |-> bucketDelete(fs, ObjectId(fileId)),
     ret |-> Ret("ok", "", fileId, 0, FALSE, FALSE, FALSE)]

\* getFileInfo whose catch block rethrows what new ObjectId threw
getFileInfoRethrow(fs, fileId) ==
  IF ObjectIdThrows(fileId) THEN [kind |-> "BSONError"]
  ELSE IF ObjectId(fileId) \notin DOMAIN fs THEN [kind |-> "NotFound"]
  ELSE
    LET file == fs[ObjectId(fileId)] IN
    [kind |-> "ok", id |-> IdString(ObjectId(fileId)), filename |-> file.filename,
     size |-> file.length, mimetype |-> mimetypeOf(file),
     uploadDate |-> file.uploadDate, metadata |-> file.metadata]

\* getFileInfo(fileId): the projection of the stored document, or NotFound
getFileInfo(fs, fileId) ==
  IF ObjectIdThrows(fileId) \/ ObjectId(fileId) \notin DOMAIN fs THEN
    [kind |-> "NotFound"]
  ELSE
    LET file == fs[ObjectId(fileId)] IN
    [kind |-> "ok", id |-> IdString(ObjectId(fileId)), filename |-> file.filename,
     size |-> file.length, mimetype |-> mimetypeOf(file),
     uploadDate |-> file.uploadDate, metadata |-> file.metadata]

\* getFileStream(fileId): the download stream (the stored bytes) with the
\* file info; whatever is thrown inside the try block becomes NotFound
getFileStream(fs, fileId) ==
  IF ObjectIdThrows(fileId) THEN [kind |-> "NotFound"]
  ELSE
    LET fileInfo == getFileInfo(fs, fileId) IN
    IF fileInfo.kind # "ok" THEN [kind |-> "NotFound"]
    ELSE [kind |-> "ok", stream |-> fs[ObjectId(fileId)].content,
          fileInfo |-> fileInfo]

\* getFilesByChatId(chatId): the ids of the documents find({'metadata.chatId':
\* chatId}) selects. The answer lists them by uploadDate, latest first; the
\* order among documents of one uploadDate is the engine's.
getFilesByChatId(fs, chatId) == {i \in DOMAIN fs : fs[i].metadata["chatId"] = Str(chatId)}

----------------------------------------------------------------------------
(* listFilesAdvanced *)

\* String.prototype.trim on a sequence of characters
RECURSIVE TrimLeft(_)
TrimLeft(t) == IF t # <<>> /\ Head(t) = " " THEN TrimLeft(Tail(t)) ELSE t

RECURSIVE TrimRight(_)
TrimRight(t) ==
  IF t # <<>> /\ t[Len(t)] = " " THEN TrimRight(SubSeq(t, 1, Len(t) - 1)) ELSE t

Trim(t) == TrimRight(TrimLeft(t))

\* mimetype.trim() on the mimetype strings of the model
TrimStr(m) == IF m = " " THEN "" ELSE IF m = " image/png " THEN "image/png" ELSE m

\* Characters escapeRegex puts a backslash before
RegexSpecial == {".", "*", "+", "?", "^", "$", "{", "}", "(", ")", "|", "[", "]", "\\"}

\* escapeRegex(input): the pattern, one token per character, special
\* characters escaped
escapeRegex(input) ==
  [k \in 1..Len(input) |-> [ch |-> input[k], escaped |-> input[k] \in RegexSpecial]]

\* Case folding of the 'i' flag on the letters of the model
LowerCase(c) == IF c = "A" THEN "a" ELSE IF c = "B" THEN "b" ELSE IF c = "T" THEN "t" ELSE c

\* A token of a pattern matches a character: an unescaped dot matches any
\* character, every other token matches itself, ignoring case
TokenMatches(tok, c) ==
  \/ tok.ch = "." /\ ~tok.escaped
  \/ LowerCase(tok.ch) = LowerCase(c)

\* new RegExp(pattern, 'i') found somewhere in text
RegexTest(pattern, text) ==
  \E k \in 0..(Len(text) - Len(pattern)) :
    \A j \in 1..Len(pattern) : TokenMatches(pattern[j], text[k + j])

\* A field of the document matches the regex; a missing field matches nothing
FieldMatches(pattern, value) == value # Undef /\ RegexTest(pattern, value[2])

\* filter.$or of the text query
QueryMatches(doc, q) ==
  LET regex == escapeRegex(Trim(q)) IN
  \/ RegexTest(regex, doc.filename)
  \/ FieldMatches(regex, doc.metadata["originalName"])
  \/ FieldMatches(regex, doc.metadata["description"])

\* filter['metadata.mimetype']
MimetypeMatches(doc, mimetype) == doc.metadata["mimetype"] = Str(TrimStr(mimetype))

\* The value the documents are sorted by. A missing metadata.updatedAt sorts
\* as null, below every date.
NullKey == -1

SortKey(doc, sortBy) ==
  IF sortBy = "size" THEN doc.length
  ELSE IF sortBy = "updatedAt" THEN
    (IF doc.metadata["updatedAt"] = Undef THEN NullKey ELSE doc.metadata["updatedAt"][2])
  ELSE doc.uploadDate[2]

\* Document a comes before document b under sort({ <key>: dir, _id: dir })
ComesBefore(fs, a, b, sortBy, sortOrder) ==
  LET ka == SortKey(fs[a], sortBy)
      kb == SortKey(fs[b], sortBy)
  IN IF sortOrder = "asc" THEN ka < kb \/ (ka = kb /\ a < b)
     ELSE ka > kb \/ (ka = kb /\ a > b)

\* find(...).sort(...).toArray() over the documents S: their ids in order
Sorted(fs, S, sortBy, sortOrder) ==
  [k \in 1..Cardinality(S) |->
     CHOOSE a \in S :
       Cardinality({b \in S : ComesBefore(fs, b, a, sortBy, sortOrder)}) = k - 1]

\* The value the cursor filter compares with, re-read from the cursor document
CursorValue(lastDoc, sortBy) ==
  IF sortBy = "size" THEN lastDoc.length
  ELSE IF sortBy = "updatedAt" THEN
    (IF lastDoc.metadata["updatedAt"] # Undef THEN lastDoc.metadata["updatedAt"][2]
     ELSE lastDoc.uploadDate[2])
  ELSE lastDoc.uploadDate[2]

\* The cursor filter without its second branch, the tie-break on _id
CursorMatchesNoTie(doc, id, lastDoc, lastId, sortBy, sortOrder) ==
  LET v == CursorValue(lastDoc, sortBy)
      has == sortBy # "updatedAt" \/ doc.metadata["updatedAt"] # Undef
      k == SortKey(doc, sortBy)
  IN /\ has
     /\ IF sortOrder = "asc" THEN k > v ELSE k < v

\* filter.$or of cursor mode: [{key: {op: v}}, {key: v, _id: {op: lastId}}].
\* $gt / $lt and equality with a date never match a missing field.
CursorMatches(doc, id, lastDoc, lastId, sortBy, sortOrder) ==
  LET v == CursorValue(lastDoc, sortBy)
      has == sortBy # "updatedAt" \/ doc.metadata["updatedAt"] # Undef
      k == SortKey(doc, sortBy)
  IN /\ has
     /\ IF sortOrder = "asc" THEN k > v \/ (k = v /\ id > lastId)
        ELSE k < v \/ (k = v /\ id < lastId)

\* The cursor resolves: it parses and findOne({_id}) returns a document
CursorResolves(fs, cursor) == ~ObjectIdThrows(cursor) /\ ObjectId(cursor) \in DOMAIN fs

\* find(filter) where a cursor that resolves to no record selects nothing
FilteredStaleEmpty(fs, p, cursorMode) ==
  LET hasQ == Trim(p.q) # <<>>
      hasM == TrimStr(p.mimetype) # ""
  IN {i \in DOMAIN fs :
        /\ hasM => MimetypeMatches(fs[i], p.mimetype)
        /\ IF cursorMode
           THEN /\ CursorResolves(fs, p.cursor)
                /\ CursorMatches(fs[i], i, fs[ObjectId(p.cursor)], ObjectId(p.cursor),
                                 p.sortBy, p.sortOrder)
           ELSE hasQ => QueryMatches(fs[i], p.q)}

\* The documents find(filter) selects. q and mimetype are AND'd; in cursor mode
\* with a cursor that resolves, filter.$or is assigned the cursor range.
Filtered(fs, p, cursorMode) ==
  LET hasQ == Trim(p.q) # <<>>
      hasM == TrimStr(p.mimetype) # ""
      ranged == cursorMode /\ CursorResolves(fs, p.cursor)
  IN {i \in DOMAIN fs :
        /\ hasM => MimetypeMatches(fs[i], p.mimetype)
        /\ IF ranged
           THEN CursorMatches(fs[i], i, fs[ObjectId(p.cursor)], ObjectId(p.cursor),
                              p.sortBy, p.sortOrder)
           ELSE hasQ => QueryMatches(fs[i], p.q)}

\* limit(m) without the skip
SkipLimitNoSkip(seq, n, m) == SubSeq(seq, 1, IF m < Len(seq) THEN m ELSE Len(seq))

\* skip(n).limit(m) on a sequence
SkipLimit(seq, n, m) ==
  IF n >= Len(seq) THEN <<>>
  ELSE SubSeq(seq, n + 1, IF n + m < Len(seq) THEN n + m ELSE Len(seq))

\* A request without cursor (cursor === undefined)
NoCursor == NoIdString

\* listFilesAdvanced that emits nextCursor whenever it returns an item
listFilesAdvancedNonEmpty(fs, p) ==
  IF p.cursor # NoCursor THEN
    LET docs == SkipLimit(Sorted(fs, Filtered(fs, p, TRUE), p.sortBy, p.sortOrder),
                          0, p.limit)
    IN [shape |-> "cursor", items |-> docs,
        nextCursor |-> IF Len(docs) > 0 THEN IdString(docs[Len(docs)])
                       ELSE NoCursor,
        page |-> 0, total |-> 0]
  ELSE
    LET pageNum == IF p.page > 0 THEN p.page ELSE 1
        skip == (pageNum - 1) * p.limit
        matching == Filtered(fs, p, FALSE)
    IN [shape |-> "page",
        items |-> SkipLimit(Sorted(fs, matching, p.sortBy, p.sortOrder), skip, p.limit),
        nextCursor |-> NoCursor,
        page |-> pageNum, total |-> Cardinality(matching)]

\* listFilesAdvanced(params) on store fs: the ids of the items in order, and
\* nextCursor (cursor mode) or page and total (page mode)
listFilesAdvanced(fs, p) ==
  IF p.cursor # NoCursor THEN
    LET docs == SkipLimit(Sorted(fs, Filtered(fs, p, TRUE), p.sortBy, p.sortOrder),
                          0, p.limit)
    IN [shape |-> "cursor", items |-> docs,
        nextCursor |-> IF Len(docs) = p.limit THEN IdString(docs[Len(docs)])
                       ELSE NoCursor,
        page |-> 0, total |-> 0]
  ELSE
    LET pageNum == IF p.page > 0 THEN p.page ELSE 1
        skip == (pageNum - 1) * p.limit
        matching == Filtered(fs, p, FALSE)
    IN [shape |-> "page",
        items |-> SkipLimit(Sorted(fs, matching, p.sortBy, p.sortOrder), skip, p.limit),
        nextCursor |-> NoCursor,
        page |-> pageNum, total |-> Cardinality(matching)]

\* The parameters of a request
Params(q, mimetype, sortBy, sortOrder, limit, page, cursor) ==
  [q |-> q, mimetype |-> mimetype, sortBy |-> sortBy, sortOrder |-> sortOrder,
   limit |-> limit, page |-> page, cursor |-> cursor]

----------------------------------------------------------------------------
(* Spec: the service called by one client, one call at a time *)

NoCalls == <<>>
NoWalk == <<>>
NoHook == <<>>
NoUi == <<>>

\* How a call relates to the call before it: "same" after a successful call of
\* the same operation on the same file and id, "otherName" for an upload after
\* a successful upload of the same bytes under another filename, "none"
\* otherwise
Relation(op, file, id) ==
  IF last.ret.kind # "ok" \/ last.op # op THEN "none"
  ELSE IF last.file = file /\ last.id = id THEN "same"
  ELSE IF op = "upload" /\ last.file.buffer = file.buffer
          /\ last.file.originalname # file.originalname
    THEN "otherName"
  ELSE "none"

\* The record of a call. deleteFailed: the delete inside replaceFile threw.
Call(op, file, id, ret, deleteFailed) ==
  [op |-> op, file |-> file, id |-> id, ret |-> ret,
   rel |-> Relation(op, file, id), deleteFailed |-> deleteFailed]

\* No call made yet
NoCall ==
  [op |-> "none", file |-> NoFile, id |-> NoIdString,
   ret |-> Fail("none", "", FALSE, FALSE), rel |-> "none", deleteFailed |-> FALSE]

\* An empty bucket
EmptyStore == [i \in {} |-> Undef]

Init ==
  /\ files = EmptyStore
  /\ nextId = 1
  /\ now = 1
  /\ last = NoCall
  /\ calls = NoCalls
  /\ walk = NoWalk
  /\ hook = NoHook
  /\ ui = NoUi

\* Time passes between two calls
Tick ==
  /\ now < MaxClock
  /\ now' = now + 1
  /\ UNCHANGED <<files, nextId, last, calls, walk, hook, ui>>

UploadFile ==
  \E file \in FileInputs, metadata \in MetaInputs, streamError \in BOOLEAN :
    \E r \in {uploadFile(files, nextId, now, file, metadata, streamError)} :
      /\ r.nextId <= MaxFiles + 1
      /\ streamError => r.ret.why = "upload"
      /\ files' = r.files
      /\ nextId' = r.nextId
      /\ last' = Call("upload", file, NoIdString, r.ret, FALSE)
      /\ UNCHANGED <<now, calls, walk, hook, ui>>

RenameFile ==
  \E fileId \in IdInputs, filename \in RenameNames, patch \in MetaInputs :
    \E r \in {renameFile(files, now, fileId, filename, patch)} :
      /\ files' = r.files
      /\ last' = Call("rename", NoFile, fileId, r.ret, FALSE)
      /\ UNCHANGED <<nextId, now, calls, walk, hook, ui>>

ReplaceFile ==
  \E fileId \in IdInputs, newFile \in FileInputs, additionalMetadata \in MetaInputs,
     deleteFails \in BOOLEAN, streamError \in BOOLEAN :
    \E r \in {replaceFile(files, nextId, now, fileId, newFile, additionalMetadata,
                          deleteFails, streamError)} :
      /\ r.nextId <= MaxFiles + 1
      /\ streamError => r.ret.why = "upload"
      /\ deleteFails => r.ret.lookup
      /\ files' = r.files
      /\ nextId' = r.nextId
      /\ last' = Call("replace", newFile, fileId, r.ret, deleteFails)
      /\ UNCHANGED <<now, calls, walk, hook, ui>>

DeleteFile ==
  \E fileId \in IdInputs, deleteFails \in BOOLEAN :
    \E r \in {deleteFile(files, fileId, deleteFails)} :
      /\ deleteFails => (~ObjectIdThrows(fileId) /\ ObjectId(fileId) \in DOMAIN files)
      /\ files' = r.files
      /\ last' = Call("delete", NoFile, fileId, r.ret, FALSE)
      /\ UNCHANGED <<nextId, now, calls, walk, hook, ui>>

Next == Tick \/ UploadFile \/ RenameFile \/ ReplaceFile \/ DeleteFile

Spec == Init /\ [][Next]_vars

TypeOK ==
  /\ DOMAIN files \subseteq 1..MaxFiles
  /\ nextId \in 1..(MaxFiles + 1)
  /\ now \in 1..MaxClock

----------------------------------------------------------------------------
(* SpecStore: the same calls as in Spec, without the record of the last     *)
(* call: the stores the service reaches.                                    *)

StoreUpload ==
  \E file \in FileInputs, metadata \in MetaInputs, streamError \in BOOLEAN :
    \E r \in {uploadFile(files, nextId, now, file, metadata, streamError)} :
      /\ r.nextId <= MaxFiles + 1
      /\ streamError => r.ret.why = "upload"
      /\ files' = r.files
      /\ nextId' = r.nextId
      /\ UNCHANGED <<now, last, calls, walk, hook, ui>>

StoreRename ==
  \E fileId \in IdInputs, filename \in RenameNames, patch \in MetaInputs :
    \E r \in {renameFile(files, now, fileId, filename, patch)} :
      /\ files' = r.files
      /\ UNCHANGED <<nextId, now, last, calls, walk, hook, ui>>

StoreReplace ==
  \E fileId \in IdInputs, newFile \in FileInputs, additionalMetadata \in MetaInputs,
     deleteFails \in BOOLEAN, streamError \in BOOLEAN :
    \E r \in {replaceFile(files, nextId, now, fileId, newFile, additionalMetadata,
                          deleteFails, streamError)} :
      /\ r.nextId <= MaxFiles + 1
      /\ streamError => r.ret.why = "upload"
      /\ deleteFails => r.ret.lookup
      /\ files' = r.files
      /\ nextId' = r.nextId
      /\ UNCHANGED <<now, last, calls, walk, hook, ui>>

StoreDelete ==
  \E fileId \in IdInputs, deleteFails \in BOOLEAN :
    \E r \in {deleteFile(files, fileId, deleteFails)} :
      /\ deleteFails => (~ObjectIdThrows(fileId) /\ ObjectId(fileId) \in DOMAIN files)
      /\ files' = r.files
      /\ UNCHANGED <<nextId, now, last, calls, walk, hook, ui>>

NextStore == Tick \/ StoreUpload \/ StoreRename \/ StoreReplace \/ StoreDelete

SpecStore == Init /\ [][NextStore]_vars

----------------------------------------------------------------------------
(* SpecConc: uploadFile calls that run concurrently. A call is split where   *)
(* the code awaits: the dedup query, then the finish of the write stream.    *)

\* Number of uploadFile calls in flight
MaxUploaders == 2

Uploaders == 1..MaxUploaders

IdleCall ==
  [pc |-> "idle", file |-> NoFile, oid |-> 0, md |-> NoMeta,
   ret |-> Fail("none", "", FALSE, FALSE)]

InitConc ==
  /\ files = EmptyStore
  /\ nextId = 1
  /\ now = 1
  /\ last = NoCall
  /\ calls = [u \in Uploaders |-> IdleCall]
  /\ walk = NoWalk
  /\ hook = NoHook
  /\ ui = NoUi

\* The call starts: the file is checked and the dedup query is sent
ConcBegin(u) ==
  /\ calls[u].pc = "idle"
  /\ \E file \in FileInputs :
       calls' = [calls EXCEPT ![u] =
         IF ~file.present THEN
           [@ EXCEPT !.pc = "done", !.file = file,
                     !.ret = Fail("BadRequest", "nofile", FALSE, FALSE)]
         ELSE IF validateFile(file) # "ok" THEN
           [@ EXCEPT !.pc = "done", !.file = file,
                     !.ret = Fail("BadRequest", validateFile(file), FALSE, FALSE)]
         ELSE [@ EXCEPT !.pc = "lookup", !.file = file]]
  /\ UNCHANGED <<files, nextId, now, last, walk, hook, ui>>

\* The dedup query runs on the store as it is now; on a miss the write stream
\* is opened, which generates the ObjectId and fixes the metadata
ConcLookup(u) ==
  /\ calls[u].pc = "lookup"
  /\ LET existing == findDuplicate(files, calls[u].file) IN
     IF existing # {} THEN
       /\ calls' = [calls EXCEPT ![u] =
            [@ EXCEPT !.pc = "done",
                      !.ret = Ret("ok", "", IdString(SetMin(existing)),
                                  files[SetMin(existing)].length, TRUE, FALSE, TRUE)]]
       /\ UNCHANGED nextId
     ELSE
       /\ nextId <= MaxFiles
       /\ calls' = [calls EXCEPT ![u] =
            [@ EXCEPT !.pc = "writing", !.oid = nextId,
                      !.md = uploadMetadata(calls[u].file, NoMeta, now)]]
       /\ nextId' = nextId + 1
  /\ UNCHANGED <<files, now, last, walk, hook, ui>>

\* uploadStream 'finish': the document and its chunks are stored
ConcFinish(u) ==
  /\ calls[u].pc = "writing"
  /\ files' = storeUpload(files, calls[u].oid, calls[u].file, calls[u].md, now)
  /\ calls' = [calls EXCEPT ![u] =
       [@ EXCEPT !.pc = "done",
                 !.ret = Ret("ok", "", IdString(calls[u].oid), calls[u].file.size,
                             TRUE, TRUE, FALSE)]]
  /\ UNCHANGED <<nextId, now, last, walk, hook, ui>>

\* uploadStream 'error': nothing is stored
ConcError(u) ==
  /\ calls[u].pc = "writing"
  /\ calls' = [calls EXCEPT ![u] =
       [@ EXCEPT !.pc = "done", !.ret = Fail("BadRequest", "upload", TRUE, TRUE)]]
  /\ UNCHANGED <<files, nextId, now, last, walk, hook, ui>>

NextConc ==
  \/ Tick
  \/ \E u \in Uploaders : ConcBegin(u)
  \/ \E u \in Uploaders : ConcLookup(u)
  \/ \E u \in Uploaders : ConcFinish(u)
  \/ \E u \in Uploaders : ConcError(u)

SpecConc == InitConc /\ [][NextConc]_vars

----------------------------------------------------------------------------
(* SpecList: a client lists a dataset that does not change, first page by    *)
(* page, then by cursor.                                                     *)

\* The documents of the datasets: uploaded at time d, and renamed (without a
\* new name) at the end of the clock when touched is TRUE
ListFile(content) ==
  IF content = ContentA THEN MkFile(ContentA, NameA, "text/plain", 1)
  ELSE MkFile(ContentB, NameB, "image/png", 2)

ListDoc(content, d, touched) ==
  LET uploaded == storeUpload(EmptyStore, 1, ListFile(content),
                              uploadMetadata(ListFile(content), NoMeta, d), d)
  IN IF touched
     THEN renameFile(uploaded, MaxClock, IdString(1), <<>>, NoMeta).files[1]
     ELSE uploaded[1]

ListDocs ==
  {ListDoc(c, d, t) : c \in {ContentA, ContentB}, d \in 1..MaxClock, t \in BOOLEAN}

\* The text queries and mimetype filters of the requests
ListQueries == {<<>>, <<" ", "B">>}
ListMimetypes == {"", "image/png"}
SortKeys == {"size", "createdAt", "updatedAt"}
SortOrders == {"asc", "desc"}

NoResponse ==
  [shape |-> "none", items |-> <<>>, nextCursor |-> NoCursor, page |-> 0, total |-> 0]

InitList ==
  /\ \E n \in 0..MaxListFiles : files \in [1..n -> ListDocs]
  /\ nextId = MaxListFiles + 1
  /\ now = MaxClock
  /\ last = NoCall
  /\ calls = NoCalls
  /\ hook = NoHook
  /\ ui = NoUi
  /\ \E q \in ListQueries, mimetype \in ListMimetypes, sortBy \in SortKeys,
        sortOrder \in SortOrders, limit \in 1..MaxLimit :
       walk = [p |-> Params(q, mimetype, sortBy, sortOrder, limit, 0, NoCursor),
               phase |-> "page", page |-> 1, cursor |-> BadIdString,
               pageIds |-> <<>>, cursorIds |-> <<>>, requests |-> 0,
               req |-> Params(q, mimetype, sortBy, sortOrder, limit, 0, NoCursor),
               resp |-> NoResponse]

\* The next request of the page walk: page = 1, 2, ... until a page comes
\* back empty or short
ListPage ==
  /\ walk.phase = "page"
  /\ LET req == [walk.p EXCEPT !.page = walk.page] IN
     \E r \in {listFilesAdvanced(files, req)} :
       walk' = [walk EXCEPT !.pageIds = @ \o r.items,
                            !.page = @ + 1,
                            !.phase = IF Len(r.items) < walk.p.limit THEN "cursor" ELSE "page",
                            !.req = req, !.resp = r]
  /\ UNCHANGED <<files, nextId, now, last, calls, hook, ui>>

\* The next request of the cursor walk: the cursor is the id of the last item
\* returned so far (a string that is no id on the first request, which the
\* service answers from the beginning), until no nextCursor comes back
ListCursor ==
  /\ walk.phase = "cursor"
  /\ LET req == [walk.p EXCEPT !.cursor = walk.cursor] IN
     \E r \in {listFilesAdvanced(files, req)} :
       walk' = [walk EXCEPT !.cursorIds = @ \o r.items, !.requests = @ + 1,
                            !.cursor = IF r.items # <<>>
                                       THEN IdString(r.items[Len(r.items)]) ELSE @,
                            !.phase = IF r.nextCursor = NoCursor THEN "done" ELSE "cursor",
                            !.req = req, !.resp = r]
  /\ UNCHANGED <<files, nextId, now, last, calls, hook, ui>>

\* Cursors that resolve to no record of fs: a string that is no id, and the
\* ids of records that are not (or no longer) stored
StaleCursors(fs) ==
  {BadIdString} \cup {IdString(k) : k \in (1..(MaxListFiles + 1)) \ DOMAIN fs}

\* After the walks, one more request with a cursor that resolves to no record
ListStale ==
  /\ walk.phase = "done"
  /\ \E cursor \in StaleCursors(files) :
       LET req == [walk.p EXCEPT !.cursor = cursor] IN
       \E r \in {listFilesAdvanced(files, req)} :
         walk' = [walk EXCEPT !.phase = "stale", !.req = req, !.resp = r]
  /\ UNCHANGED <<files, nextId, now, last, calls, hook, ui>>

NextList == ListPage \/ ListCursor \/ ListStale

SpecList == InitList /\ [][NextList]_vars

----------------------------------------------------------------------------
(* SpecChurn: a client walks a dataset by cursor, sorted by size or by       *)
(* creation time, while other clients upload and delete records between its  *)
(* requests.                                                                 *)

\* Uploads of other clients during one walk
MaxChurn == 1

\* The documents of the datasets: never renamed
ChurnDocs == {ListDoc(c, d, FALSE) : c \in {ContentA, ContentB}, d \in 1..MaxClock}

\* n0: the number of records stored when the walk starts (ids 1..n0);
\* uploads, deletes: the changes other clients have made since
InitChurn ==
  /\ \E n \in 0..MaxListFiles :
       /\ files \in [1..n -> ChurnDocs]
       /\ nextId = n + 1
       /\ \E q \in ListQueries, mimetype \in ListMimetypes,
             sortBy \in {"size", "createdAt"}, sortOrder \in SortOrders,
             limit \in 1..MaxLimit :
            walk = [p |-> Params(q, mimetype, sortBy, sortOrder, limit, 0, NoCursor),
                    phase |-> "cursor", cursor |-> BadIdString,
                    cursorIds |-> <<>>, requests |-> 0,
                    n0 |-> n, uploads |-> 0, deletes |-> 0,
                    req |-> Params(q, mimetype, sortBy, sortOrder, limit, 0, NoCursor),
                    resp |-> NoResponse]
  /\ now = MaxClock
  /\ last = NoCall
  /\ calls = NoCalls
  /\ hook = NoHook
  /\ ui = NoUi

\* The next request of the walk, on the store as it is now
ChurnCursor ==
  /\ walk.phase = "cursor"
  /\ LET req == [walk.p EXCEPT !.cursor = walk.cursor] IN
     \E r \in {listFilesAdvanced(files, req)} :
       walk' = [walk EXCEPT !.cursorIds = @ \o r.items, !.requests = @ + 1,
                            !.cursor = IF r.nextCursor # NoCursor THEN r.nextCursor ELSE @,
                            !.phase = IF r.nextCursor = NoCursor THEN "done" ELSE "cursor",
                            !.req = req, !.resp = r]
  /\ UNCHANGED <<files, nextId, now, last, calls, hook, ui>>

\* Another client uploads a file between two requests of the walk
ChurnUpload ==
  /\ walk.phase = "cursor"
  /\ walk.uploads < MaxChurn
  /\ \E file \in {f \in FileInputs : f.present /\ validateFile(f) = "ok"} :
       \E r \in {uploadFile(files, nextId, now, file, NoMeta, FALSE)} :
         /\ ~r.ret.dedup
         /\ files' = r.files
         /\ nextId' = r.nextId
  /\ walk' = [walk EXCEPT !.uploads = @ + 1]
  /\ UNCHANGED <<now, last, calls, hook, ui>>

\* Another client deletes a record that is not the cursor of the next request
ChurnDelete ==
  /\ walk.phase = "cursor"
  /\ \E oid \in DOMAIN files :
       /\ IdString(oid) # walk.cursor
       /\ \E r \in {deleteFile(files, IdString(oid), FALSE)} : files' = r.files
  /\ walk' = [walk EXCEPT !.deletes = @ + 1]
  /\ UNCHANGED <<nextId, now, last, calls, hook, ui>>

NextChurn == ChurnCursor \/ ChurnUpload \/ ChurnDelete

SpecChurn == InitChurn /\ [][NextChurn]_vars

----------------------------------------------------------------------------
(* SpecValidate: validateFile applied to files under the limits an           *)
(* environment can configure.                                                *)

\* The mimetypes of the files and of the allow-lists
Mimetypes == {"text/plain", "image/png", "application/zip"}

\* environment.fileUpload: a size limit and an allow-list, which may be empty
Environments ==
  {[maxFileSize |-> m, acceptedTypes |-> t] : m \in 1..maxFileSize, t \in SUBSET Mimetypes}

\* The files validateFile is applied to: every declared size up to one above
\* the largest limit, every mimetype
ValidateInputs ==
  {MkFile(ContentA, NameA, m, sz) : m \in Mimetypes, sz \in 0..(maxFileSize + 1)}

\* The record of a validateFile call under an environment
ValidateCall(op, env, file, ret) ==
  [op |-> op, env |-> env, file |-> file, id |-> NoIdString, ret |-> ret,
   rel |-> "none", deleteFailed |-> FALSE]

InitValidate ==
  /\ files = EmptyStore
  /\ nextId = 1
  /\ now = 1
  /\ \E env \in Environments : last = ValidateCall("none", env, NoFile, "none")
  /\ calls = NoCalls
  /\ walk = NoWalk
  /\ hook = NoHook
  /\ ui = NoUi

ValidateFile ==
  \E file \in ValidateInputs :
    /\ last' = ValidateCall("validate", last.env, file,
                            validateFileWith(file, last.env.maxFileSize,
                                             last.env.acceptedTypes))
    /\ UNCHANGED <<files, nextId, now, calls, walk, hook, ui>>

NextValidate == ValidateFile

SpecValidate == InitValidate /\ [][NextValidate]_vars

----------------------------------------------------------------------------
(* SpecRead: a client reads records of a dataset by id: getFileInfo and      *)
(* getFileStream.                                                            *)

\* The ids a client asks for: of every record that can be stored, of one that
\* never is, and a string that is no id
ReadIds == {IdString(i) : i \in 1..(MaxListFiles + 1)} \cup {BadIdString}

\* The record of a read
ReadCall(op, fileId, ret) ==
  [op |-> op, file |-> NoFile, id |-> fileId, ret |-> ret, rel |-> "none",
   deleteFailed |-> FALSE]

InitRead ==
  /\ \E n \in 0..MaxListFiles : files \in [1..n -> ListDocs]
  /\ nextId = MaxListFiles + 1
  /\ now = MaxClock
  /\ last = NoCall
  /\ calls = NoCalls
  /\ walk = NoWalk
  /\ hook = NoHook
  /\ ui = NoUi

GetFileInfo ==
  \E fileId \in ReadIds :
    /\ last' = ReadCall("info", fileId, getFileInfo(files, fileId))
    /\ UNCHANGED <<files, nextId, now, calls, walk, hook, ui>>

GetFileStream ==
  \E fileId \in ReadIds :
    /\ last' = ReadCall("stream", fileId, getFileStream(files, fileId))
    /\ UNCHANGED <<files, nextId, now, calls, walk, hook, ui>>

NextRead == GetFileInfo \/ GetFileStream

SpecRead == InitRead /\ [][NextRead]_vars

----------------------------------------------------------------------------
(* SpecHook: one mounted component that calls useDebounce(value, delay). The *)
(* parent re-renders it with a new value or delay, time passes in ticks, and *)
(* timers fire when they are due.                                            *)

\* Renders with a changed value or delay in one behaviour
MaxRenders == 3
\* Largest delay, in ticks
MaxDelay == 2

\* The values and delays the hook is called with
HookValues == {"", "a", "ab"}
Delays == 1..MaxDelay

\* A pending timer: the value its callback captured and the ticks until it is
\* due
Timer(id, value, remaining) == [id |-> id, value |-> value, remaining |-> remaining]

\* setTimeout(() => setDebouncedValue(value), delay), returning handler id
setTimeout(timers, id, value, delay) == timers \cup {Timer(id, value, delay)}

\* A cleanup that does not clear the timer
clearTimeoutNoop(timers, handler) == timers

\* clearTimeout(handler)
clearTimeout(timers, handler) == {t \in timers : t.id # handler}

Min(a, b) == IF a < b THEN a ELSE b

\* Mount: useState(value) and the first run of the effect. quiet: ticks since
\* value or delay last changed; inputs, outputs: the values the hook was
\* called with and the values it has returned, in order.
InitHook ==
  /\ files = EmptyStore
  /\ nextId = 1
  /\ now = 1
  /\ last = NoCall
  /\ calls = NoCalls
  /\ walk = NoWalk
  /\ ui = NoUi
  /\ \E value \in HookValues, delay \in Delays :
       hook = [value |-> value, delay |-> delay, debouncedValue |-> value,
               handler |-> 0, timers |-> setTimeout({}, 0, value, delay),
               renders |-> 0, quiet |-> 0,
               inputs |-> <<value>>, outputs |-> <<value>>]

\* A render with another value or delay: the cleanup of the last effect
\* runs, then the effect, which sets a new timer
Rerender ==
  /\ hook.renders < MaxRenders
  /\ \E value \in HookValues, delay \in Delays :
       /\ <<value, delay>> # <<hook.value, hook.delay>>
       /\ hook' = [hook EXCEPT
            !.value = value, !.delay = delay,
            !.handler = hook.renders + 1,
            !.timers = setTimeout(clearTimeout(hook.timers, hook.handler),
                                  hook.renders + 1, value, delay),
            !.renders = @ + 1, !.quiet = 0,
            !.inputs = IF value # hook.value THEN Append(@, value) ELSE @]
  /\ UNCHANGED <<files, nextId, now, last, calls, walk, ui>>

\* One tick passes while no timer is due
Elapse ==
  /\ hook.timers # {}
  /\ \A t \in hook.timers : t.remaining > 0
  /\ hook' = [hook EXCEPT
       !.timers = {Timer(t.id, t.value, t.remaining - 1) : t \in hook.timers},
       !.quiet = Min(@ + 1, MaxDelay)]
  /\ UNCHANGED <<files, nextId, now, last, calls, walk, ui>>

\* A timer that is due fires: setDebouncedValue(value) with the value its
\* callback captured
TimeoutFires ==
  /\ \E t \in hook.timers :
       /\ t.remaining = 0
       /\ hook' = [hook EXCEPT
            !.debouncedValue = t.value,
            !.timers = @ \ {t},
            !.outputs = IF t.value # hook.debouncedValue THEN Append(@, t.value) ELSE @]
  /\ UNCHANGED <<files, nextId, now, last, calls, walk, ui>>

NextHook == Rerender \/ Elapse \/ TimeoutFires

SpecHook == InitHook /\ [][NextHook]_vars

\* Time passes and a due timer fires
SpecHookLive == SpecHook /\ WF_vars(Elapse) /\ WF_vars(TimeoutFires)

----------------------------------------------------------------------------
(* SpecUi: one mounted FileList over a dataset that does not change. The     *)
(* user changes the search, filter and sort controls and refreshes, the      *)
(* loader sentinel becomes visible, and the answers to the list requests     *)
(* arrive in any order.                                                      *)

filesPerPage == 20

\* The largest dataset, and the list requests one FileList issues
MaxUiFiles == 21
MaxRequests == 3

\* Record i of the dataset: uploaded at time i, never renamed
UiDoc(i) == ListDoc(IF i % 2 = 1 THEN ContentA ELSE ContentB, i, FALSE)

\* fileService.listFiles: the request reaches listFilesAdvanced with the
\* parameters the component passes, and its answer comes back as it is
listFiles(fs, p) == listFilesAdvanced(fs, p)

\* The parameters resetAndLoad sends: page 1, no cursor
ResetParams(u) == Params(u.q, u.mimetype, u.sortBy, u.sortOrder, filesPerPage, 1, NoCursor)

\* The parameters loadMore sends: the cursor, no page
MoreParams(u) == Params(u.q, u.mimetype, u.sortBy, u.sortOrder, filesPerPage, 0, u.nextCursor)

\* resetAndLoad up to its await: the list is emptied and the request is sent
resetAndLoad(u) ==
  [u EXCEPT !.loading = TRUE, !.error = FALSE, !.files = <<>>,
            !.nextCursor = NoCursor,
            !.issued = @ + 1, !.latest = u.issued + 1,
            !.inflight = @ \cup {[n |-> u.issued + 1, kind |-> "reset",
                                  p |-> ResetParams(u)]}]

\* resetAndLoad after its await: the answer resp, or a rejection
resetAndLoadDone(u, r, ok, resp) ==
  LET v == [u EXCEPT !.inflight = @ \ {r}, !.loading = FALSE] IN
  IF ~ok THEN [v EXCEPT !.error = TRUE]
  ELSE IF resp.shape = "page"
    THEN [v EXCEPT !.files = resp.items, !.totalCount = resp.total,
                   !.nextCursor = NoCursor, !.answered = @ \cup {r.n}]
    ELSE [v EXCEPT !.files = resp.items, !.totalCount = Len(resp.items),
                   !.nextCursor = resp.nextCursor, !.answered = @ \cup {r.n}]

\* loadMore up to its await: nothing without a cursor or while one is loading
loadMore(u) ==
  IF u.nextCursor = NoCursor \/ u.isLoadingMore THEN u
  ELSE [u EXCEPT !.isLoadingMore = TRUE, !.issued = @ + 1,
                 !.inflight = @ \cup {[n |-> u.issued + 1, kind |-> "more",
                                       p |-> MoreParams(u)]}]

\* loadMore after its await: the answer is appended
loadMoreDone(u, r, ok, resp) ==
  LET v == [u EXCEPT !.inflight = @ \ {r}, !.isLoadingMore = FALSE] IN
  IF ~ok THEN [v EXCEPT !.error = TRUE]
  ELSE [v EXCEPT !.files = @ \o resp.items, !.totalCount = @ + Len(resp.items),
                 !.nextCursor = resp.nextCursor, !.answered = @ \cup {r.n}]

\* The component as first rendered, q = '', mimetype = '', sortBy =
\* 'createdAt', sortOrder = 'desc', after the effect that loads the list.
\* issued, latest, answered: the requests sent so far, the last one of
\* resetAndLoad, and those answered without an error
InitUi ==
  /\ \E n \in 0..MaxUiFiles : files = [i \in 1..n |-> UiDoc(i)]
  /\ nextId = MaxUiFiles + 1
  /\ now = MaxUiFiles
  /\ last = NoCall
  /\ calls = NoCalls
  /\ walk = NoWalk
  /\ hook = NoHook
  /\ ui = resetAndLoad([q |-> <<>>, mimetype |-> "", sortBy |-> "createdAt",
                        sortOrder |-> "desc", files |-> <<>>, loading |-> TRUE,
                        error |-> FALSE, totalCount |-> 0, nextCursor |-> NoCursor,
                        isLoadingMore |-> FALSE, inflight |-> {}, issued |-> 0,
                        latest |-> 0, answered |-> {}])

\* setQ, setMimetype, setSortBy or setSortOrder with a new value, and the
\* effect on [debouncedQ, mimetype, sortBy, sortOrder] of the next render
SetFilters ==
  /\ ui.issued < MaxRequests
  /\ \E q \in ListQueries, mimetype \in ListMimetypes,
        sortBy \in SortKeys, sortOrder \in SortOrders :
       /\ Cardinality({k \in 1..4 :
             <<q, mimetype, sortBy, sortOrder>>[k]
               # <<ui.q, ui.mimetype, ui.sortBy, ui.sortOrder>>[k]}) = 1
       /\ ui' = resetAndLoad([ui EXCEPT !.q = q, !.mimetype = mimetype,
                                        !.sortBy = sortBy, !.sortOrder = sortOrder])
  /\ UNCHANGED <<files, nextId, now, last, calls, walk, hook>>

\* The refresh button
HandleRefresh ==
  /\ ui.issued < MaxRequests
  /\ ui' = resetAndLoad(ui)
  /\ UNCHANGED <<files, nextId, now, last, calls, walk, hook>>

\* The loader sentinel becomes visible: the observer calls loadMore
SentinelVisible ==
  /\ ui.issued < MaxRequests
  /\ ui' = loadMore(ui)
  /\ UNCHANGED <<files, nextId, now, last, calls, walk, hook>>

\* The answer to one of the requests in flight arrives, or the request fails
ListResponse ==
  /\ \E r \in ui.inflight, ok \in BOOLEAN :
       \E resp \in {listFiles(files, r.p)} :
         ui' = IF r.kind = "reset" THEN resetAndLoadDone(ui, r, ok, resp)
               ELSE loadMoreDone(ui, r, ok, resp)
  /\ UNCHANGED <<files, nextId, now, last, calls, walk, hook>>

NextUi == SetFilters \/ HandleRefresh \/ SentinelVisible \/ ListResponse

SpecUi == InitUi /\ [][NextUi]_vars

----------------------------------------------------------------------------
(* Claims *)

\* The files validation accepts
ValidFiles == {f \in FileInputs : f.present /\ validateFile(f) = "ok"}

\* The ids of a sequence, as a set, and a sequence without repetition
Range(seq) == {seq[k] : k \in 1..Len(seq)}
NoRepeat(seq) == Cardinality(Range(seq)) = Len(seq)

\* C1: in every reachable state and for every file validation accepts, a
\* successful uploadFile(file) followed at once by the same uploadFile(file)
\* (at the same or a later time, whatever the write stream would do) returns
\* the same id and leaves the stored records as the first call left them.
C1_UploadTwiceSameId ==
  \A file \in ValidFiles, clk \in now..MaxClock, streamError \in BOOLEAN :
    LET r1 == uploadFile(files, nextId, now, file, NoMeta, FALSE)
        r2 == uploadFile(r1.files, r1.nextId, clk, file, NoMeta, streamError)
    IN r1.ret.kind = "ok" =>
         /\ r2.ret.kind = "ok"
         /\ r2.ret.id = r1.ret.id
         /\ r2.files = r1.files
         /\ r2.nextId = r1.nextId

\* A second upload of the same file in a row was answered with the id of the
\* only stored record, which an upload without metadata created
C1_Witness ==
  /\ last.op = "upload" /\ last.rel = "same"
  /\ last.ret.kind = "ok" /\ last.ret.dedup
  /\ DOMAIN files = {1} /\ last.ret.id = IdString(1)
  /\ files[1].metadata["chatId"] = Undef
  /\ files[1].metadata["hash"] = Sha256(last.file.buffer)

\* C2: every stored record's metadata.hash is the SHA-256 of the bytes stored
\* under its id.
C2_HashMatchesContent ==
  \A i \in DOMAIN files : files[i].metadata["hash"] = Sha256(files[i].content)

\* C3: after a successful replaceFile(id, newFile, overrides) the returned id
\* differs from id and the record stored under it has
\* metadata.originalReplacedId = id.
C3_ReplaceNewId ==
  (last.op = "replace" /\ last.ret.kind = "ok") =>
    /\ last.ret.id # last.id
    /\ ObjectId(last.ret.id) \in DOMAIN files
    /\ files[ObjectId(last.ret.id)].metadata["originalReplacedId"] = <<"id", last.id.n>>

\* C4: a successful renameFile leaves the record's id, size and content hash
\* as they were and sets metadata.updatedAt to the time of the call.
C4_RenameKeeps ==
  [][(now' = now /\ last'.op = "rename" /\ last'.ret.kind = "ok") =>
       LET oid == ObjectId(last'.id) IN
       /\ oid \in DOMAIN files /\ oid \in DOMAIN files'
       /\ last'.ret.id = last'.id
       /\ files'[oid].length = files[oid].length
       /\ last'.ret.size = files[oid].length
       /\ files'[oid].content = files[oid].content
       /\ files'[oid].metadata["hash"] = files[oid].metadata["hash"]
       /\ files'[oid].metadata["updatedAt"] = Date(now)]_vars

\* C5: in every reachable state, uploading the same bytes under two different
\* filenames F1 and F2, one call after the other, returns two different ids,
\* the records under them are named F1 and F2 and have the same content hash;
\* and when no record with these bytes' hash was stored under F1 or F2 before,
\* neither upload is short-circuited by the dedup check: both create a record.
C5_TwoNamesTwoRecords ==
  \A f1 \in ValidFiles, f2 \in ValidFiles, clk \in now..MaxClock :
    (f1.buffer = f2.buffer /\ f1.originalname # f2.originalname) =>
      LET r1 == uploadFile(files, nextId, now, f1, NoMeta, FALSE)
          r2 == uploadFile(r1.files, r1.nextId, clk, f2, NoMeta, FALSE)
          id1 == ObjectId(r1.ret.id)
          id2 == ObjectId(r2.ret.id)
      IN /\ r1.ret.kind = "ok" /\ r2.ret.kind = "ok"
         /\ id1 # id2
         /\ {id1, id2} \subseteq DOMAIN r2.files
         /\ r2.files[id1].filename = f1.originalname
         /\ r2.files[id2].filename = f2.originalname
         /\ r2.files[id1].metadata["hash"] = Sha256(f1.buffer)
         /\ r2.files[id2].metadata["hash"] = Sha256(f1.buffer)
         /\ (findDuplicate(files, f1) = {} /\ findDuplicate(files, f2) = {}) =>
              (~r1.ret.dedup /\ ~r2.ret.dedup
               /\ DOMAIN r2.files = DOMAIN files \cup {id1, id2}
               /\ {id1, id2} \cap DOMAIN files = {})

\* The same bytes were uploaded under a second name right after the first and
\* both uploads created a record
C5_Witness ==
  /\ last.op = "upload" /\ last.rel = "otherName"
  /\ last.ret.kind = "ok" /\ ~last.ret.dedup
  /\ DOMAIN files = {1, 2} /\ last.ret.id = IdString(2)
  /\ files[1].content = files[2].content
  /\ files[1].filename # files[2].filename
  /\ files[1].metadata["hash"] = files[2].metadata["hash"]

\* C6: when both walks of an unfiltered dataset are complete, the page walk
\* and the cursor walk have returned the same set of ids, each id once.
C6_WalksAgree ==
  (walk.phase = "done" /\ Trim(walk.p.q) = <<>> /\ TrimStr(walk.p.mimetype) = "") =>
    /\ Range(walk.pageIds) = Range(walk.cursorIds)
    /\ NoRepeat(walk.pageIds)
    /\ NoRepeat(walk.cursorIds)

\* C7: every item of a cursor-mode answer to a request with a cursor that
\* resolves matches the text query and has the requested mimetype, when given.
C7_CursorKeepsFilters ==
  (walk.resp.shape = "cursor" /\ CursorResolves(files, walk.req.cursor)) =>
    \A k \in 1..Len(walk.resp.items) :
      LET doc == files[walk.resp.items[k]] IN
      /\ Trim(walk.req.q) # <<>> => QueryMatches(doc, walk.req.q)
      /\ TrimStr(walk.req.mimetype) # "" => MimetypeMatches(doc, walk.req.mimetype)

\* C8: an uploadFile call whose declared size exceeds maxFileSize ends with
\* BadRequest, ran no dedup query and opened no write stream, and the stored
\* records and the next id are what they were before the call.
C8_OversizedRejected ==
  [][(now' = now /\ last'.op = "upload" /\ last'.file.present
        /\ last'.file.size > maxFileSize) =>
       /\ last'.ret.kind = "BadRequest"
       /\ ~last'.ret.lookup /\ ~last'.ret.opened
       /\ files' = files
       /\ nextId' = nextId]_vars

\* An oversized upload was rejected on a store that holds a record
C8_Witness ==
  /\ last.op = "upload" /\ last.file.present /\ last.file.size > maxFileSize
  /\ last.ret.kind = "BadRequest" /\ last.ret.why = "size"
  /\ files # EmptyStore

\* The id resolves to a stored record
Resolves(fs, fileId) == ~ObjectIdThrows(fileId) /\ ObjectId(fileId) \in DOMAIN fs

\* C9: deleteFile(id) ends with NotFound and leaves the store as it was
\* whenever no record has the id (a malformed id included); after a successful
\* deleteFile(id) getFileInfo(id) ends with NotFound, and a deleteFile(id) that
\* follows at once ends with NotFound.
C9_DeleteNotFound ==
  [][(now' = now /\ last'.op = "delete") =>
       /\ ~Resolves(files, last'.id) =>
            (last'.ret.kind = "NotFound" /\ files' = files)
       /\ last'.ret.kind = "ok" =>
            /\ Resolves(files, last'.id)
            /\ getFileInfo(files', last'.id).kind = "NotFound"
            /\ \A deleteFails \in BOOLEAN :
                 deleteFile(files', last'.id, deleteFails).ret.kind = "NotFound"
       /\ last'.rel = "same" => last'.ret.kind = "NotFound"]_vars

\* The same id was deleted twice in a row: the second call ended with NotFound
C9_Witness ==
  /\ last.op = "delete" /\ last.rel = "same"
  /\ last.ret.kind = "NotFound"
  /\ last.id.hex

\* Two calls that uploaded the same bytes under the same name and both missed
\* the dedup query
BothMissed(u, v) ==
  /\ u # v
  /\ calls[u].pc = "done" /\ calls[v].pc = "done"
  /\ calls[u].ret.kind = "ok" /\ calls[v].ret.kind = "ok"
  /\ ~calls[u].ret.dedup /\ ~calls[v].ret.dedup
  /\ calls[u].file.buffer = calls[v].file.buffer
  /\ calls[u].file.originalname = calls[v].file.originalname

\* C10: whenever two concurrent uploadFile calls of the same content and
\* filename both passed the dedup query before either write finished, they
\* return different ids and both records are stored, with the same content
\* hash and filename.
C10_RaceStoresTwo ==
  \A u \in Uploaders, v \in Uploaders :
    BothMissed(u, v) =>
      LET a == ObjectId(calls[u].ret.id)
          b == ObjectId(calls[v].ret.id)
      IN /\ a # b
         /\ {a, b} \subseteq DOMAIN files
         /\ files[a].filename = files[b].filename
         /\ files[a].metadata["hash"] = files[b].metadata["hash"]
         /\ files[a].metadata["hash"] = Sha256(calls[u].file.buffer)

\* Both calls have returned, and two records share content hash and filename
C10_Witness ==
  /\ \E u \in Uploaders, v \in Uploaders : BothMissed(u, v)
  /\ \E a \in DOMAIN files, b \in DOMAIN files :
       /\ a # b
       /\ files[a].filename = files[b].filename
       /\ files[a].metadata["hash"] = files[b].metadata["hash"]

\* C11: a renameFile or replaceFile call (the latter with a file validation
\* accepts) on an id that resolves to no record, because it is malformed or
\* because no record has it, ends with NotFound and leaves the store as it was.
C11_MissingIdNotFound ==
  [][(/\ now' = now
      /\ last'.op \in {"rename", "replace"}
      /\ ~Resolves(files, last'.id)
      /\ last'.op = "replace" => last'.file \in ValidFiles) =>
       /\ last'.ret.kind = "NotFound"
       /\ files' = files
       /\ nextId' = nextId]_vars

\* The projection the claim describes of the record stored under oid
Projection(fs, oid) ==
  [kind |-> "ok", id |-> IdString(oid), filename |-> fs[oid].filename,
   size |-> Len(fs[oid].content),
   mimetype |-> IF fs[oid].metadata["mimetype"] = Undef
                THEN Str("application/octet-stream")
                ELSE fs[oid].metadata["mimetype"],
   uploadDate |-> fs[oid].uploadDate, metadata |-> fs[oid].metadata]

\* C12: getFileInfo(id) ends with the projection (id, filename, size,
\* mimetype, uploadDate, metadata) of the record stored under id, and with
\* NotFound when id is malformed or no record has it; getFileStream(id)
\* succeeds exactly when the id resolves, then with the same projection and
\* the stored bytes, and every failure of it is NotFound.
C12_InfoAndStream ==
  /\ last.op = "info" =>
       IF Resolves(files, last.id)
       THEN last.ret = Projection(files, ObjectId(last.id))
       ELSE last.ret = [kind |-> "NotFound"]
  /\ last.op = "stream" =>
       IF Resolves(files, last.id)
       THEN /\ last.ret.kind = "ok"
            /\ last.ret.fileInfo = Projection(files, ObjectId(last.id))
            /\ last.ret.stream = files[ObjectId(last.id)].content
       ELSE last.ret = [kind |-> "NotFound"]

\* getFileInfo returned the projection of a stored record whose metadata a
\* rename has touched
C12_Witness ==
  /\ last.op = "info" /\ last.ret.kind = "ok"
  /\ Resolves(files, last.id)
  /\ last.ret.metadata["updatedAt"] # Undef
  /\ last.ret.size = 2
  /\ Cardinality(DOMAIN files) > 1

\* The ids of seq are in the order sort({ <key>: dir, _id: dir }) gives them
OrderedBy(fs, seq, sortBy, sortOrder) ==
  \A j \in 1..Len(seq), k \in 1..Len(seq) :
    j < k => ComesBefore(fs, seq[j], seq[k], sortBy, sortOrder)

\* C13: the items of every listFilesAdvanced answer, in page mode and in
\* cursor mode, are ordered by (sort key, id) in the requested direction and
\* are at most limit; and the pages of a cursor walk, one after the other,
\* are ordered the same way.
C13_ListingOrdered ==
  /\ walk.resp.shape # "none" =>
       /\ OrderedBy(files, walk.resp.items, walk.req.sortBy, walk.req.sortOrder)
       /\ Len(walk.resp.items) <= walk.req.limit
  /\ OrderedBy(files, walk.cursorIds, walk.p.sortBy, walk.p.sortOrder)

\* The first limit records, in the requested order, of those that match the
\* text query and the mimetype filter of p
FromBeginning(fs, p) ==
  LET matching ==
        {i \in DOMAIN fs :
           /\ Trim(p.q) # <<>> => QueryMatches(fs[i], p.q)
           /\ TrimStr(p.mimetype) # "" => MimetypeMatches(fs[i], p.mimetype)}
      n == Cardinality(matching)
  IN SubSeq(Sorted(fs, matching, p.sortBy, p.sortOrder), 1,
            IF n < p.limit THEN n ELSE p.limit)

\* C14: a cursor-mode answer to a cursor that resolves to no record (it is no
\* id, or no record has the id) holds the first limit records under the
\* filters and sort of the request; and so does, on every dataset before the
\* walk starts, the answer to the id of any stored record as cursor once
\* that record has been deleted.
C14_StaleCursorFromStart ==
  /\ (walk.resp.shape = "cursor" /\ ~CursorResolves(files, walk.req.cursor)) =>
       walk.resp.items = FromBeginning(files, walk.req)
  /\ walk.resp.shape = "none" =>
       \A i \in DOMAIN files :
         LET after == bucketDelete(files, i)
             req == [walk.p EXCEPT !.cursor = IdString(i)]
         IN listFilesAdvanced(after, req).items = FromBeginning(after, req)

\* A request whose cursor is the id of a record that is not stored was
\* answered with the first records that match its text query
C14_Witness ==
  /\ walk.phase = "stale" /\ walk.resp.shape = "cursor"
  /\ walk.req.cursor.hex /\ ~CursorResolves(files, walk.req.cursor)
  /\ Trim(walk.req.q) # <<>>
  /\ Len(walk.resp.items) = 2
  /\ walk.resp.items = SubSeq(walk.pageIds, 1, 2)

\* The files validation accepts, and a file of two bytes declared as one
SizeInputs == ValidFiles \cup {MkFile(ContentB, NameB, "image/png", 1)}

\* C15: in every reachable state, the size in the result of an uploadFile
\* call that creates a record is the number of bytes stored under the
\* returned id, which is the size getFileInfo returns for that id, whatever
\* size the caller declared.
C15_SizeIsStoredLength ==
  \A file \in SizeInputs :
    LET r == uploadFile(files, nextId, now, file, NoMeta, FALSE) IN
    (r.ret.kind = "ok" /\ ~r.ret.dedup) =>
      /\ r.ret.size = Len(r.files[ObjectId(r.ret.id)].content)
      /\ r.ret.size = getFileInfo(r.files, r.ret.id).size

C17_NextCursorWhenFull ==
  walk.resp.shape = "cursor" =>
    /\ walk.resp.nextCursor # NoCursor <=> Len(walk.resp.items) = walk.req.limit
    /\ walk.resp.nextCursor # NoCursor =>
         walk.resp.nextCursor = IdString(walk.resp.items[Len(walk.resp.items)])

\* The continuation of an unfiltered walk by creation time from a cursor that
\* resolves returned a full page and the id of its last item as nextCursor
C17_Witness ==
  /\ walk.resp.shape = "cursor" /\ CursorResolves(files, walk.req.cursor)
  /\ Trim(walk.req.q) = <<>> /\ walk.req.sortBy = "createdAt"
  /\ Len(walk.resp.items) = walk.req.limit
  /\ walk.resp.nextCursor = IdString(walk.resp.items[Len(walk.resp.items)])
  /\ walk.resp.nextCursor # walk.req.cursor

\* The page parameters of a request: negative, zero (also standing for an
\* absent page), and pages up to one past the end of the largest dataset
PageInputs == (-1)..(MaxListFiles + 1)

\* The records that match the text query and the mimetype filter of p
Matching(fs, p) ==
  {i \in DOMAIN fs :
     /\ Trim(p.q) # <<>> => QueryMatches(fs[i], p.q)
     /\ TrimStr(p.mimetype) # "" => MimetypeMatches(fs[i], p.mimetype)}

\* The page-mode answer the claim describes to the request p
PageOf(fs, p) ==
  LET pageNum == IF p.page >= 1 THEN p.page ELSE 1
      all == Sorted(fs, Matching(fs, p), p.sortBy, p.sortOrder)
      from == (pageNum - 1) * p.limit
  IN [page |-> pageNum, total |-> Len(all),
      items |-> [k \in 1..Min(p.limit, IF Len(all) > from THEN Len(all) - from ELSE 0)
                   |-> all[from + k]]]

\* C18: a request without cursor is answered in page mode with the records
\* (page-1)*limit+1 .. page*limit of the filtered, sorted sequence, where a
\* page that is absent, zero or negative counts and is reported as page 1;
\* total is the number of records that match the filter, on every page, also
\* on pages past the end, which hold no items. This holds of every answer of
\* the page walk and, before the walk starts, of the answer to every page
\* parameter on the dataset.
C18_PageMode ==
  /\ walk.resp.shape = "page" =>
       \A e \in {PageOf(files, walk.req)} :
         /\ walk.resp.page = e.page
         /\ walk.resp.total = e.total
         /\ walk.resp.items = e.items
  /\ walk.resp.shape = "none" =>
       \A page \in PageInputs :
         \A req \in {[walk.p EXCEPT !.page = page, !.cursor = NoCursor]} :
           \A r \in {listFilesAdvanced(files, req)}, e \in {PageOf(files, req)} :
             /\ r.shape = "page"
             /\ r.page = e.page
             /\ r.total = e.total
             /\ r.items = e.items
             /\ Len(r.items) <= req.limit
             /\ (r.page - 1) * req.limit >= r.total => r.items = <<>>

\* The second page of three matching records, two to a page, was answered
\* with the third record and total 3
C18_Witness ==
  /\ walk.resp.shape = "page" /\ walk.req.page = 2 /\ walk.req.limit = 2
  /\ walk.resp.page = 2 /\ walk.resp.total = 3
  /\ Len(walk.resp.items) = 1
  /\ walk.resp.items[1] \notin Range(SubSeq(walk.pageIds, 1, 2))

\* renameFile(id, {filename, metadata: patch}) on a stored record succeeds,
\* keeps or sets the filename, and leaves the bytes, the upload date, the
\* other records and the number of records as they were
RenameFrame(fs, r, oid, filename) ==
  /\ r.ret.kind = "ok"
  /\ DOMAIN r.files = DOMAIN fs
  /\ \A j \in DOMAIN fs \ {oid} : r.files[j] = fs[j]
  /\ r.files[oid].filename = IF filename # <<>> THEN filename ELSE fs[oid].filename
  /\ r.files[oid].content = fs[oid].content
  /\ r.files[oid].length = fs[oid].length
  /\ r.files[oid].uploadDate = fs[oid].uploadDate

\* C19 as stated: in every reachable state a renameFile on a stored record
\* sets its metadata to the old metadata merged with the patch, the patch
\* winning on every key it has and every other key keeping its old value;
\* the filename changes only when a non-empty one is given, and the other
\* records and their number stay.
C19_PatchWinsEveryKey ==
  \A oid \in DOMAIN files, filename \in RenameNames, patch \in MetaInputs :
    \A r \in {renameFile(files, now, IdString(oid), filename, patch)} :
      /\ RenameFrame(files, r, oid, filename)
      /\ \A k \in MetaKeys :
           r.files[oid].metadata[k] =
             IF patch[k] # Undef THEN patch[k] ELSE files[oid].metadata[k]

\* C19 as amended: the same, except that metadata.updatedAt is the time of
\* the call, whatever the old metadata and the patch hold under that key.
C19_RenameMerges ==
  \A oid \in DOMAIN files, filename \in RenameNames, patch \in MetaInputs :
    \A r \in {renameFile(files, now, IdString(oid), filename, patch)} :
      /\ RenameFrame(files, r, oid, filename)
      /\ \A k \in MetaKeys :
           r.files[oid].metadata[k] =
             IF k = "updatedAt" THEN Date(now)
             ELSE IF patch[k] # Undef THEN patch[k] ELSE files[oid].metadata[k]

\* A rename with a patch and a new filename has acted on one of two records:
\* the patch's chatId is stored, updatedAt is the time of the call and not
\* the patch's, the content hash the upload computed was overwritten by the
\* patch's, and the other record kept its name
C19_Witness ==
  /\ last.op = "rename" /\ last.ret.kind = "ok"
  /\ DOMAIN files = {1, 2}
  /\ files[ObjectId(last.id)].filename = NameB
  /\ files[ObjectId(last.id)].metadata["chatId"] = Str("c1")
  /\ files[ObjectId(last.id)].metadata["updatedAt"] = Date(now)
  /\ files[ObjectId(last.id)].metadata["originalName"] = Str(NameA)
  /\ \E j \in DOMAIN files : files[j].filename = NameA

\* The call was rejected as an invalid request: the file is missing or fails
\* validation (a failed write of the upload is a storage failure)
InvalidRequest(ret) == ret.kind = "BadRequest" /\ ret.why \in {"nofile", "size", "type"}

\* A file that is both too large and of a type that is not accepted
OversizedZip == MkFile(ContentA, NameA, "application/zip", maxFileSize + 1)

\* C20: a replaceFile call is rejected as an invalid request when the file is
\* missing, then when it is too large, then when its type is not accepted,
\* whatever the id; only then a well-formed id that no record has ends the
\* call with NotFound; and a call that ends as an invalid request or with
\* NotFound has run no query or write of an upload and leaves the stored
\* records, the old record included, and the next id as they were.
C20_ReplaceChecksFirst ==
  [][(now' = now /\ last'.op = "replace") =>
       /\ ~last'.file.present =>
            (last'.ret.kind = "BadRequest" /\ last'.ret.why = "nofile")
       /\ (last'.file.present /\ last'.file.size > maxFileSize) =>
            (last'.ret.kind = "BadRequest" /\ last'.ret.why = "size")
       /\ (last'.file.present /\ last'.file.size <= maxFileSize
             /\ last'.file.mimetype \notin acceptedTypes) =>
            (last'.ret.kind = "BadRequest" /\ last'.ret.why = "type")
       /\ (last'.file \in ValidFiles /\ last'.id.hex
             /\ ObjectId(last'.id) \notin DOMAIN files) =>
            last'.ret.kind = "NotFound"
       /\ (InvalidRequest(last'.ret) \/ last'.ret.kind = "NotFound") =>
            /\ files' = files
            /\ nextId' = nextId
            /\ ~last'.ret.lookup /\ ~last'.ret.opened
       /\ \A r \in {replaceFile(files, nextId, now, last'.id, OversizedZip, NoMeta,
                                 FALSE, FALSE)} :
            /\ r.ret.kind = "BadRequest" /\ r.ret.why = "size"
            /\ r.files = files]_vars

\* A replaceFile of a stored record with a file of a type that is not
\* accepted was rejected, and the record is still stored
C20_Witness ==
  /\ last.op = "replace" /\ InvalidRequest(last.ret) /\ last.ret.why = "type"
  /\ Resolves(files, last.id)
  /\ files[ObjectId(last.id)].metadata["originalReplacedId"] = Undef

\* C21: a replaceFile call whose delete of the old record failed and that
\* ended successfully returns the id of a stored record that holds the new
\* content.
C21_DeleteFailureSwallowed ==
  (last.op = "replace" /\ last.deleteFailed /\ last.ret.kind = "ok") =>
    /\ Resolves(files, last.ret.id)
    /\ files[ObjectId(last.ret.id)].content = last.file.buffer
    /\ getFileStream(files, last.ret.id).kind = "ok"

\* C22: in every reachable state, the record a successful replaceFile of a
\* stored record creates has originalReplacedId = the old id and updatedAt =
\* the time of the call, whatever the overrides hold under these keys; under
\* every other key it has the override when there is one, else the old
\* record's value when it has one (chatId and userId among them).
C22_ReplaceMetadata ==
  \A oid \in DOMAIN files, newFile \in ValidFiles, additionalMetadata \in MetaInputs,
     deleteFails \in BOOLEAN :
    \A r \in {replaceFile(files, nextId, now, IdString(oid), newFile,
                          additionalMetadata, deleteFails, FALSE)} :
      (r.ret.kind = "ok" /\ ~r.ret.dedup) =>
        /\ ObjectId(r.ret.id) \in DOMAIN r.files
        /\ \A k \in MetaKeys :
             \A v \in {r.files[ObjectId(r.ret.id)].metadata[k]} :
               IF k = "originalReplacedId" THEN v = <<"id", oid>>
               ELSE IF k = "updatedAt" THEN v = Date(now)
               ELSE IF additionalMetadata[k] # Undef THEN v = additionalMetadata[k]
               ELSE files[oid].metadata[k] # Undef => v = files[oid].metadata[k]

\* A record that a replaceFile with overrides created is stored: it names the
\* record it replaced and the chat of the overrides, its updatedAt is a time
\* of the clock and not the overrides', and its originalName is the old
\* record's, not the name it is stored under
C22_Witness ==
  \E i \in DOMAIN files :
    /\ files[i].metadata["originalReplacedId"] \in {<<"id", j>> : j \in 1..MaxFiles}
    /\ files[i].metadata["originalReplacedId"] # <<"id", i>>
    /\ files[i].metadata["chatId"] = Str("c1")
    /\ files[i].metadata["updatedAt"] = Date(now)
    /\ files[i].metadata["originalName"] # Str(files[i].filename)

\* C23: validateFile rejects a file whose declared size exceeds the limit with
\* the size error, whatever its mimetype; a file within the limit is rejected
\* with the type error exactly when the allow-list is not empty and does not
\* hold its mimetype, and is accepted otherwise.
C23_SizeBeforeType ==
  last.op = "validate" =>
    IF last.file.size > last.env.maxFileSize THEN last.ret = "size"
    ELSE IF last.env.acceptedTypes # {} /\ last.file.mimetype \notin last.env.acceptedTypes
      THEN last.ret = "type"
    ELSE last.ret = "ok"

\* A file that is too large and of a type the allow-list does not hold was
\* rejected with the size error
C23_Witness ==
  /\ last.op = "validate" /\ last.ret = "size"
  /\ last.file.size > last.env.maxFileSize
  /\ last.env.acceptedTypes # {}
  /\ last.file.mimetype \notin last.env.acceptedTypes

\* C24: in every reachable state, after a successful uploadFile(file,
\* {chatId: C}) of a file validation accepts, getFilesByChatId(C) holds the id
\* the upload returned.
C24_UploadListedForChat ==
  \A file \in ValidFiles :
    \A r \in {uploadFile(files, nextId, now, file, Meta([chatId |-> Str("c1")]), FALSE)} :
      r.ret.kind = "ok" => ObjectId(r.ret.id) \in getFilesByChatId(r.files, "c1")

\* C25: a replaceFile call on a stored record that ends in an error of any
\* kind leaves that record stored under its id as it was.
C25_ReplaceNeverLoses ==
  [][(/\ now' = now
      /\ last'.op = "replace"
      /\ last'.ret.kind # "ok"
      /\ Resolves(files, last'.id)) =>
       /\ ObjectId(last'.id) \in DOMAIN files'
       /\ files'[ObjectId(last'.id)] = files[ObjectId(last'.id)]]_vars

\* How often id occurs in seq
Count(seq, id) == Cardinality({k \in 1..Len(seq) : seq[k] = id})

\* C26: when a cursor walk by size or creation time is complete, every record
\* that was stored before the walk started, is still stored, and matches the
\* filters of the walk has been returned exactly once, whatever other
\* clients uploaded and deleted between the requests (the cursor of a pending
\* request excepted).
C26_StableReturnedOnce ==
  walk.phase = "done" =>
    \A i \in Matching(files, walk.p) :
      i <= walk.n0 => Count(walk.cursorIds, i) = 1

\* A walk of several requests is complete during which another client
\* uploaded a record and one was deleted, and two records that stayed have
\* been returned
C26_Witness ==
  /\ walk.phase = "done"
  /\ walk.uploads > 0 /\ walk.deletes > 0
  /\ Len(walk.cursorIds) > walk.p.limit
  /\ Cardinality({i \in Matching(files, walk.p) : i <= walk.n0}) >= 2
  /\ \E i \in DOMAIN files : i > walk.n0 /\ Count(walk.cursorIds, i) = 1

\* C27: on a dataset of n records that does not change, a cursor walk makes
\* at most n \div limit + 1 requests before an answer without nextCursor is
\* returned, and no request returns a record that an earlier one returned.
C27_WalkTerminates ==
  walk.phase \in {"cursor", "done"} =>
    /\ walk.requests <= (Cardinality(DOMAIN files) \div walk.p.limit) + 1
    /\ NoRepeat(walk.cursorIds)

C29_NextCursorWhenMore ==
  (/\ ui.inflight = {}
   /\ ui.latest \in ui.answered
   /\ Cardinality(Matching(files, ResetParams(ui))) > Len(ui.files))
    => ui.nextCursor # NoCursor

====
